---- MODULE Spec2Model ----
(***************************************************************************)
(* A model of the url_shortener service: the durable store (gorm on       *)
(* Postgres), the cache (redis), the code generator and the resolution     *)
(* service that orchestrates them.  Requests run concurrently; a request   *)
(* takes one step per collaborator call (store or cache), which is where   *)
(* the Go code can be interleaved with other requests and with the clock.  *)
(***************************************************************************)
EXTENDS Integers, Sequences, FiniteSets, TLC

(***************************************************************************)
(* Bounds of the model.                                                    *)
(***************************************************************************)
\* the clock runs over 0..MaxTime; one unit of time is 12 hours
MaxTime == 2
\* requested expirations are absent or one of 0..MaxExpiry
MaxExpiry == 1
\* number of requests served over a run
MaxRequests == 2
\* cap on the ids of store rows (the values the sequence of urls.id gives)
MaxRows == 3
\* the expirations the cache-TTL runs draw from: absent or one of 0..MaxTTLExpiry
MaxTTLExpiry == 6
\* the custom codes the validation runs draw have 1..MaxCodeLen characters
MaxCodeLen == 21

(***************************************************************************)
(* Program constants.                                                      *)
(***************************************************************************)
\* service.DefaultCacheTTL = 24 * time.Hour, in units of 12 hours
DefaultCacheTTL == 2
\* service.CacheKeyPrefix
CacheKeyPrefix == "url:"
\* the generation loop's bound: for i := 0; i < 5; i++
MaxAttempts == 5
\* shortener.DefaultLength, config URL_LENGTH default
DefaultLength == 6
\* IsValidCustomCode: len(code) < 3 || len(code) > 20
MinCustomLen == 3
MaxCustomLen == 20
\* config SHORT_URL_DOMAIN default
domainName == "http://localhost:8000"

\* shortener.CharSet, one string per character
CharSet ==
  { "a","b","c","d","e","f","g","h","i","j","k","l","m",
    "n","o","p","q","r","s","t","u","v","w","x","y","z",
    "A","B","C","D","E","F","G","H","I","J","K","L","M",
    "N","O","P","Q","R","S","T","U","V","W","X","Y","Z",
    "0","1","2","3","4","5","6","7","8","9" }

(***************************************************************************)
(* Inputs.  A short code is the sequence of its characters.                *)
(***************************************************************************)
G1 == <<"a","B","c","1","2","3">>
G2 == <<"x","Y","z","7","8","9">>
\* too short, and a character outside CharSet
BadShort == <<"a","b">>
BadChar == <<"a","-","c","d">>
\* the empty custom code: the request asks for a generated code
NoCustom == << >>

\* what shortener.Generate may draw (a sample of the 62^6 codes)
GenPool == {G1, G2}
\* custom codes a request may carry
CustomCodes == {G1, G2, BadShort, BadChar}
\* codes a resolve or stats request may carry
LookupCodes == {G1, G2}
\* each request of a run brings its own original URL: that of the request
\* after which k - 1 more are served
URLOf(k) == <<"https://example.com/", k>>
URLs == { URLOf(k) : k \in 1..MaxRequests }
NoURL == << >>
IPs == {"10.0.0.1"}

NoExpiry == -1
NoTime == -1
Expiries == {NoExpiry} \cup (0..MaxExpiry)
\* the requests in flight together: at most two
Procs == {1, 2}

(***************************************************************************)
(* shortener                                                               *)
(***************************************************************************)
\* len(code) of a Go string: the number of bytes of its UTF-8 encoding.
\* Of the characters the inputs are made of only "é" takes two bytes.
UTF8Len(ch) == IF ch = "é" THEN 2 ELSE 1

RECURSIVE ByteLen(_)
ByteLen(code) ==
  IF code = << >> THEN 0 ELSE UTF8Len(Head(code)) + ByteLen(Tail(code))

\* IsValidCustomCode accepting 19 characters at most
IsValidCustomCode_OffByOne(code) ==
  IF ByteLen(code) < MinCustomLen \/ ByteLen(code) >= MaxCustomLen
  THEN FALSE
  ELSE \A k \in 1..Len(code) : code[k] \in CharSet

\* Shortener.IsValidCustomCode
IsValidCustomCode(code) ==
  IF ByteLen(code) < MinCustomLen \/ ByteLen(code) > MaxCustomLen
  THEN FALSE
  ELSE \A k \in 1..Len(code) : code[k] \in CharSet

\* NewShortener: a non-positive length becomes DefaultLength
NewShortener(length) == IF length <= 0 THEN DefaultLength ELSE length

\* Shortener.Generate / generateRandomString: the codes one call may return;
\* each has s.length characters of CharSet
Generate(length) ==
  { c \in GenPool : Len(c) = length /\ \A k \in 1..Len(c) : c[k] \in CharSet }

(***************************************************************************)
(* Errors, as the strings the code builds.                                 *)
(***************************************************************************)
ErrNone == ""
ErrInvalidCode == "invalid custom code"
ErrCodeInUse == "custom code already in use"
ErrGenerate == "failed to generate short code"
ErrExhausted == "failed to generate unique short code"
ErrCreate == "failed to create URL"
ErrNotFound == "URL with short code not found"
ErrExpired == "URL has expired"
ErrFinding == "error finding URL"
ErrStore == "store error"
ErrDuplicate == "duplicate key value violates unique constraint"
ErrForeignKey == "insert violates foreign key constraint"
ErrKeyNotFound == "key not found"
ErrCacheGet == "failed to get value"

(***************************************************************************)
(* repository: the urls table.  rows is the table in id order; the ids are *)
(* the values the table's sequence gave, which may leave gaps.  DeletedAt  *)
(* is gorm's soft-delete column.                                           *)
(***************************************************************************)
NoRow ==
  [id |-> 0, originalURL |-> NoURL, shortCode |-> << >>, visitCount |-> 0,
   expiresAt |-> NoExpiry, createdByIP |-> "", createdAt |-> NoTime,
   deletedAt |-> NoTime]

Min(S) == CHOOSE x \in S : \A y \in S : x <= y

\* a unique index that leaves soft-deleted rows out
UniqueViolation_VisibleOnly(rs, code) ==
  \E k \in 1..Len(rs) : rs[k].shortCode = code /\ rs[k].deletedAt = NoTime

\* the unique index on short_code (model.URL): it covers every row of the
\* table, soft-deleted ones included
UniqueViolation(rs, code) == \E k \in 1..Len(rs) : rs[k].shortCode = code

\* the position in the table of the row with the id (the primary key)
ByID(rs, id) == CHOOSE k \in 1..Len(rs) : rs[k].id = id
HasID(rs, id) == \E k \in 1..Len(rs) : rs[k].id = id

\* Create without the unique index
Create_NoUniqueIndex(rs, sq, url, t, dbOk) ==
  IF ~dbOk THEN [err |-> ErrStore, rows |-> rs, seq |-> sq]
  ELSE [err |-> ErrNone,
        rows |-> Append(rs, [url EXCEPT !.id = sq + 1, !.createdAt = t]),
        seq |-> sq + 1]

\* URLRepositoryImpl.Create: INSERT; dbOk = FALSE is a store failure, in
\* which the statement does not run.  The id is the next value of the
\* sequence of urls.id, sq being its last value; an INSERT that the unique
\* index rejects has drawn its value too, and the sequence does not give it
\* back.  Returns the error, the table and the sequence afterwards.
Create(rs, sq, url, t, dbOk) ==
  IF ~dbOk THEN [err |-> ErrStore, rows |-> rs, seq |-> sq]
  ELSE IF UniqueViolation(rs, url.shortCode)
  THEN [err |-> ErrDuplicate, rows |-> rs, seq |-> sq + 1]
  ELSE [err |-> ErrNone,
        rows |-> Append(rs, [url EXCEPT !.id = sq + 1, !.createdAt = t]),
        seq |-> sq + 1]

\* FindByShortCode without the test of ExpiresAt
FindByShortCode_NoExpiry(rs, code, t, dbOk) ==
  LET m == { k \in 1..Len(rs) : rs[k].shortCode = code /\ rs[k].deletedAt = NoTime }
  IN  IF ~dbOk THEN [err |-> ErrFinding, url |-> NoRow]
      ELSE IF m = {} THEN [err |-> ErrNotFound, url |-> NoRow]
      ELSE [err |-> ErrNone, url |-> rs[Min(m)]]

\* URLRepositoryImpl.FindByShortCode: the first row (by id) with the code
\* that is not soft-deleted; an error when there is none, when the store
\* fails, or when its ExpiresAt is before now
FindByShortCode(rs, code, t, dbOk) ==
  LET m == { k \in 1..Len(rs) : rs[k].shortCode = code /\ rs[k].deletedAt = NoTime }
  IN  IF ~dbOk THEN [err |-> ErrFinding, url |-> NoRow]
      ELSE IF m = {} THEN [err |-> ErrNotFound, url |-> NoRow]
      ELSE IF rs[Min(m)].expiresAt # NoExpiry /\ rs[Min(m)].expiresAt < t
      THEN [err |-> ErrExpired, url |-> NoRow]
      ELSE [err |-> ErrNone, url |-> rs[Min(m)]]

\* IncrementVisitCount writing back a count read earlier (the count the
\* record was created with, plus one) in place of visit_count + 1
IncrementVisitCount_StaleWrite(rs, id, dbOk) ==
  IF ~dbOk THEN rs
  ELSE [k \in 1..Len(rs) |->
          IF rs[k].id = id /\ rs[k].deletedAt = NoTime
          THEN [rs[k] EXCEPT !.visitCount = 1]
          ELSE rs[k]]

\* URLRepositoryImpl.IncrementVisitCount: UPDATE ... SET visit_count =
\* visit_count + 1 WHERE id = ? (and not soft-deleted)
IncrementVisitCount(rs, id, dbOk) ==
  IF ~dbOk THEN rs
  ELSE [k \in 1..Len(rs) |->
          IF rs[k].id = id /\ rs[k].deletedAt = NoTime
          THEN [rs[k] EXCEPT !.visitCount = @ + 1]
          ELSE rs[k]]

\* ExpiredRows with "expires_at <= ?" for "expires_at < ?"
ExpiredRows_AtOrBefore(rs, t) ==
  { k \in 1..Len(rs) : rs[k].deletedAt = NoTime /\ rs[k].expiresAt # NoExpiry
                        /\ rs[k].expiresAt <= t }

\* the rows DeleteExpired's WHERE clause selects at time t
ExpiredRows(rs, t) ==
  { k \in 1..Len(rs) : rs[k].deletedAt = NoTime /\ rs[k].expiresAt # NoExpiry
                        /\ rs[k].expiresAt < t }

\* DeleteExpired without its WHERE clause: soft-deletes every visible row
DeleteExpired_EveryRow(rs, t, dbOk) ==
  IF ~dbOk THEN [err |-> ErrStore, count |-> 0, rows |-> rs]
  ELSE [err |-> ErrNone,
        count |-> Cardinality({ k \in 1..Len(rs) : rs[k].deletedAt = NoTime }),
        rows |-> [k \in 1..Len(rs) |->
                    IF rs[k].deletedAt = NoTime
                    THEN [rs[k] EXCEPT !.deletedAt = t]
                    ELSE rs[k]]]

\* URLRepositoryImpl.DeleteExpired: soft-deletes the selected rows and
\* returns their number
DeleteExpired(rs, t, dbOk) ==
  IF ~dbOk THEN [err |-> ErrStore, count |-> 0, rows |-> rs]
  ELSE [err |-> ErrNone, count |-> Cardinality(ExpiredRows(rs, t)),
        rows |-> [k \in 1..Len(rs) |->
                    IF k \in ExpiredRows(rs, t)
                    THEN [rs[k] EXCEPT !.deletedAt = t]
                    ELSE rs[k]]]

(***************************************************************************)
(* repository: the url_visits table, in id order.  URLVisit.URLID is a     *)
(* foreign key to urls.id (the migration creates the constraint); a        *)
(* soft-deleted url row still satisfies it.                                *)
(***************************************************************************)
NoVisit == [id |-> 0, urlID |-> 0, ip |-> "", createdAt |-> NoTime]

\* URLRepositoryImpl.CreateVisit: INSERT INTO url_visits.  The id is the
\* next value of the sequence of url_visits.id, sq being its last value; an
\* INSERT that the foreign key rejects has drawn its value too.  Returns the
\* error, the table and the sequence afterwards.
CreateVisit(vs, sq, rs, visit, t, dbOk) ==
  IF ~dbOk THEN [err |-> ErrStore, visits |-> vs, seq |-> sq]
  ELSE IF ~HasID(rs, visit.urlID)
  THEN [err |-> ErrForeignKey, visits |-> vs, seq |-> sq + 1]
  ELSE [err |-> ErrNone,
        visits |-> Append(vs, [visit EXCEPT !.id = sq + 1, !.createdAt = t]),
        seq |-> sq + 1]

(***************************************************************************)
(* cache: redis keys with a time to live.  An entry is live while now is   *)
(* before its exp.                                                         *)
(***************************************************************************)
NoEntry == [val |-> NoURL, exp |-> NoTime]
CacheKey(shortCode) == <<CacheKeyPrefix>> \o shortCode
Keys == { CacheKey(c) : c \in GenPool \cup CustomCodes \cup LookupCodes }
\* the exp of a key stored without expiration
Persistent == -2
Live(c, key, t) ==
  c[key] # NoEntry /\ (c[key].exp = Persistent \/ c[key].exp > t)

\* RedisClient.Get: the value, "key not found" on a miss, another error when
\* redis fails
Get(c, key, t, cacheOk) ==
  IF ~cacheOk THEN [err |-> ErrCacheGet, val |-> NoURL]
  ELSE IF ~Live(c, key, t) THEN [err |-> ErrKeyNotFound, val |-> NoURL]
  ELSE [err |-> ErrNone, val |-> c[key].val]

\* RedisClient.Set: SET key value, with EX/PX when the expiration is
\* positive and without expiration otherwise (go-redis v8; the durations
\* here are multiples of 12 hours, so none is redis.KeepTTL, -1 ns)
Set(c, key, value, expiration, t, cacheOk) ==
  IF ~cacheOk THEN c
  ELSE [c EXCEPT ![key] =
          [val |-> value,
           exp |-> IF expiration > 0 THEN t + expiration ELSE Persistent]]

\* RedisClient.Delete: DEL key
Delete(c, key, cacheOk) ==
  IF ~cacheOk THEN c ELSE [c EXCEPT ![key] = NoEntry]

\* the string of the decimal digits of n; a value is a text followed by a
\* number, as in URLOf
Decimal(n) == <<"", n>>
IsDecimal(value) == value # << >> /\ value[1] = ""
ErrNotInteger == "ERR value is not an integer or out of range"
ErrCacheIncr == "redis: connection failure"

\* RedisClient.Increment: INCR key.  A missing key counts from 0 and gets no
\* expiration; a key holding a decimal string is increased and keeps its
\* expiration; any other value is an error.  Returns the error, the new
\* number and the cache afterwards.
Increment(c, key, t, cacheOk) ==
  IF ~cacheOk THEN [err |-> ErrCacheIncr, n |-> 0, cache |-> c]
  ELSE IF ~Live(c, key, t)
  THEN [err |-> ErrNone, n |-> 1,
        cache |-> [c EXCEPT ![key] = [val |-> Decimal(1), exp |-> Persistent]]]
  ELSE IF ~IsDecimal(c[key].val)
  THEN [err |-> ErrNotInteger, n |-> 0, cache |-> c]
  ELSE [err |-> ErrNone, n |-> c[key].val[2] + 1,
        cache |-> [c EXCEPT ![key].val = Decimal(c[key].val[2] + 1)]]

\* RedisClient.SetWithTTL
SetWithTTL(c, key, value, ttl, t, cacheOk) == Set(c, key, value, ttl, t, cacheOk)

\* an entry redis has expired is gone
Evict(c, t) == [k \in DOMAIN c |-> IF Live(c, k, t) THEN c[k] ELSE NoEntry]

(***************************************************************************)
(* service: the cache TTL, computed inline by CreateShortURL and by        *)
(* GetOriginalURL.  time.Until(e) at time t is e - t.                      *)
(***************************************************************************)
\* CreateShortURL, "cacheTTL := DefaultCacheTTL ..."
CreateCacheTTL(expiresAt, t) ==
  IF expiresAt # NoExpiry /\ expiresAt - t > 0 /\ expiresAt - t < DefaultCacheTTL
  THEN expiresAt - t
  ELSE DefaultCacheTTL

\* ResolveCacheTTL without the cap at DefaultCacheTTL
ResolveCacheTTL_NoCap(expiresAt, t) ==
  IF expiresAt # NoExpiry /\ expiresAt - t > 0
  THEN expiresAt - t
  ELSE DefaultCacheTTL

\* GetOriginalURL, "cacheTTL := DefaultCacheTTL ..."
ResolveCacheTTL(expiresAt, t) ==
  IF expiresAt # NoExpiry /\ expiresAt - t > 0 /\ expiresAt - t < DefaultCacheTTL
  THEN expiresAt - t
  ELSE DefaultCacheTTL

\* fmt.Sprintf("%s/%s", s.domainName, shortCode)
ShortURL(shortCode) == <<domainName, "/">> \o shortCode

(***************************************************************************)
(* State.                                                                  *)
(***************************************************************************)
VARIABLES
  now,    \* the clock
  rows,   \* the urls table
  cache,  \* redis: key -> entry
  bg,     \* the visit-count goroutines GetOriginalURL started and that have
          \* not run yet: row id -> how many
  left,   \* how many more requests the run serves
  req,    \* the requests in flight: what each was called with, where it
          \* stands, its local variables and, once it returned, its result
  visits, \* the url_visits table
  pv,     \* the RecordVisit goroutines the redirect handler started and that
          \* have not run yet: the urlID they were given -> how many
  seq     \* the last values of the id sequences of the two tables

vars == <<now, rows, cache, bg, left, req, visits, pv, seq>>

\* the sequences when the tables hold n url rows and no visit, and no INSERT
\* was rejected so far
SeqAfter(n) == [urls |-> n, visits |-> 0]

\* the collaborator calls a request has made so far
NoCalls ==
  [generate |-> 0, find |-> 0, create |-> 0, get |-> 0, set |-> 0, incr |-> 0,
   stats |-> 0, visit |-> 0]

\* what an operation returns: the error and the response's fields
NoRes ==
  [err |-> ErrNone, cause |-> ErrNone, shortURL |-> << >>, originalURL |-> NoURL,
   shortCode |-> << >>, expiresAt |-> NoExpiry, createdAt |-> NoTime,
   visitCount |-> 0, count |-> 0]

Failure(err, cause) == [NoRes EXCEPT !.err = err, !.cause = cause]

Idle ==
  [pc |-> "idle", op |-> "", originalURL |-> NoURL, expiresAt |-> NoExpiry,
   customCode |-> NoCustom, ip |-> "", shortCode |-> << >>, i |-> 0,
   url |-> NoRow, res |-> NoRes, calls |-> NoCalls, faults |-> 0,
   cancelled |-> FALSE]

Called(q, what) == [q.calls EXCEPT ![what] = @ + 1]

\* the collaborator calls of the request that failed (the store or redis was
\* down, the random source was exhausted): one more unless ok
Faults(q, ok) == IF ok THEN q.faults ELSE q.faults + 1

\* a call made with the request's ctx: once the caller has cancelled the
\* request the store and redis clients return ctx.Err() and do nothing
Ctx(q, ok) == ok /\ ~q.cancelled

\* the request returned res
Returned(q, res) == [q EXCEPT !.pc = "done", !.res = res]

\* no RecordVisit goroutine is pending; a visit count, which is what the
\* handler passes for the urlID, is at most the number of requests
NoPending == [u \in 0..MaxRequests |-> 0]

Init ==
  /\ now = 0
  /\ rows = << >>
  /\ cache = [k \in Keys |-> NoEntry]
  /\ bg = [id \in 1..MaxRows |-> 0]
  /\ left = MaxRequests
  /\ req = [p \in Procs |-> Idle]
  /\ visits = << >>
  /\ pv = NoPending
  /\ seq = SeqAfter(0)

\* time passes; redis drops the entries whose time to live has run out
Tick ==
  /\ now < MaxTime
  /\ now' = now + 1
  /\ cache' = Evict(cache, now + 1)
  /\ UNCHANGED <<left, rows, bg, req, visits, pv, seq>>

\* a request arrives and is served in slot p: the slot is free (its last
\* request returned), the second slot is taken only while the first is busy,
\* and the run's budget of requests is not used up
Free(p) == req[p].pc \in {"idle", "done"}
Arrive(p) ==
  /\ Free(p)
  /\ IF p = 1 THEN TRUE ELSE ~Free(1)
  /\ left > 0
  /\ left' = left - 1

(***************************************************************************)
(* CreateShortURL                                                          *)
(***************************************************************************)
\* the call's arguments
CreateCall(originalURL, expiresAt, customCode, ip) ==
  [Idle EXCEPT !.op = "CreateShortURL", !.originalURL = originalURL,
               !.expiresAt = expiresAt, !.customCode = customCode, !.ip = ip]

\* url := &model.URL{...}
NewURL(q) ==
  [NoRow EXCEPT !.originalURL = q.originalURL, !.shortCode = q.shortCode,
                !.expiresAt = q.expiresAt, !.createdByIP = q.ip]

\* CustomBranch with the store asked before the code is validated
CustomBranch_LookupFirst(q, rs, t, dbOk) ==
  IF FindByShortCode(rs, q.customCode, t, dbOk).err # ErrNone
  THEN Returned([q EXCEPT !.calls = Called(q, "find"), !.faults = Faults(q, dbOk)],
                Failure(ErrCodeInUse, ErrNone))
  ELSE IF ~IsValidCustomCode(q.customCode)
  THEN Returned([q EXCEPT !.calls = Called(q, "find")],
                Failure(ErrInvalidCode, ErrNone))
  ELSE [q EXCEPT !.pc = "create", !.shortCode = q.customCode,
                 !.calls = Called(q, "find")]

\* the custom-code branch: validation, then the lookup of the code
CustomBranch(q, rs, t, dbOk) ==
  IF ~IsValidCustomCode(q.customCode)
  THEN Returned(q, Failure(ErrInvalidCode, ErrNone))
  ELSE IF FindByShortCode(rs, q.customCode, t, dbOk).err # ErrNone
  THEN Returned([q EXCEPT !.calls = Called(q, "find"), !.faults = Faults(q, dbOk)],
                Failure(ErrCodeInUse, ErrNone))
  ELSE [q EXCEPT !.pc = "create", !.shortCode = q.customCode,
                 !.calls = Called(q, "find")]

\* GenerateIteration giving up one iteration late (i == 5 for i == 4)
GenerateIteration_OffByOne(q, rs, t, cand, genOk, dbOk) ==
  LET g == [q EXCEPT !.calls = Called(q, "generate"), !.faults = Faults(q, genOk)]
      f == [g EXCEPT !.shortCode = cand, !.calls = Called(g, "find"),
                     !.faults = Faults(g, dbOk)]
  IN  IF ~genOk
      THEN Returned(g, Failure(ErrGenerate, "rand"))
      ELSE IF FindByShortCode(rs, cand, t, dbOk).err # ErrNone
      THEN [f EXCEPT !.pc = "create"]
      ELSE IF q.i = MaxAttempts
      THEN Returned(f, Failure(ErrExhausted, ErrNone))
      ELSE [f EXCEPT !.pc = "generate", !.i = q.i + 1]

\* GenerateIteration without the break: a free candidate is kept only when
\* it is the last one
GenerateIteration_NoBreak(q, rs, t, cand, genOk, dbOk) ==
  LET g == [q EXCEPT !.calls = Called(q, "generate"), !.faults = Faults(q, genOk)]
      f == [g EXCEPT !.shortCode = cand, !.calls = Called(g, "find"),
                     !.faults = Faults(g, dbOk)]
  IN  IF ~genOk
      THEN Returned(g, Failure(ErrGenerate, "rand"))
      ELSE IF q.i = MaxAttempts - 1
      THEN IF FindByShortCode(rs, cand, t, dbOk).err # ErrNone
           THEN [f EXCEPT !.pc = "create"]
           ELSE Returned(f, Failure(ErrExhausted, ErrNone))
      ELSE [f EXCEPT !.pc = "generate", !.i = q.i + 1]

\* one iteration of the generation loop, i = q.i: Generate returned cand
\* (genOk) or failed; then the lookup of the candidate
GenerateIteration(q, rs, t, cand, genOk, dbOk) ==
  LET g == [q EXCEPT !.calls = Called(q, "generate"), !.faults = Faults(q, genOk)]
      f == [g EXCEPT !.shortCode = cand, !.calls = Called(g, "find"),
                     !.faults = Faults(g, dbOk)]
  IN  IF ~genOk
      THEN Returned(g, Failure(ErrGenerate, "rand"))
      ELSE IF FindByShortCode(rs, cand, t, dbOk).err # ErrNone
      THEN [f EXCEPT !.pc = "create"]
      ELSE IF q.i = MaxAttempts - 1
      THEN Returned(f, Failure(ErrExhausted, ErrNone))
      ELSE [f EXCEPT !.pc = "generate", !.i = q.i + 1]

\* a request with a custom code arrives: up to the lookup of the code
CreateShortURL_Custom(p, originalURL, expiresAt, customCode, ip, dbOk) ==
  /\ Arrive(p)
  /\ customCode # NoCustom
  /\ req' = [req EXCEPT ![p] =
       CustomBranch(CreateCall(originalURL, expiresAt, customCode, ip), rows, now, dbOk)]
  /\ UNCHANGED <<now, rows, cache, bg, visits, pv, seq>>

\* a request without a custom code arrives: the loop's first iteration
CreateShortURL_Generate(p, originalURL, expiresAt, ip, cand, genOk, dbOk) ==
  /\ Arrive(p)
  /\ cand \in Generate(NewShortener(DefaultLength))
  /\ req' = [req EXCEPT ![p] =
       GenerateIteration(CreateCall(originalURL, expiresAt, NoCustom, ip),
                         rows, now, cand, genOk, dbOk)]
  /\ UNCHANGED <<now, rows, cache, bg, visits, pv, seq>>

\* the loop's next iteration
CreateShortURL_Retry(p, cand, genOk, dbOk) ==
  /\ req[p].pc = "generate"
  /\ cand \in Generate(NewShortener(DefaultLength))
  /\ req' = [req EXCEPT ![p] =
       GenerateIteration(req[p], rows, now, cand, genOk, Ctx(req[p], dbOk))]
  /\ UNCHANGED <<left, now, rows, cache, bg, visits, pv, seq>>

\* CreateShortURL_Create with the cache written before the store has answered
CreateShortURL_Create_CachesFirst(p, dbOk) ==
  LET q == req[p]
      c == Create(rows, seq.urls, NewURL(q), now, Ctx(q, dbOk))
      w == [q EXCEPT !.calls = Called(q, "create"),
                     !.faults = Faults(q, Ctx(q, dbOk))]
  IN  /\ q.pc = "create"
      /\ seq.urls < MaxRows
      /\ rows' = c.rows
      /\ seq' = [seq EXCEPT !.urls = c.seq]
      /\ cache' = SetWithTTL(cache, CacheKey(q.shortCode), q.originalURL,
                             CreateCacheTTL(q.expiresAt, now), now, TRUE)
      /\ req' = [req EXCEPT ![p] =
           IF c.err # ErrNone
           THEN Returned(w, Failure(ErrCreate, c.err))
           ELSE [w EXCEPT !.pc = "cache", !.url = c.rows[Len(c.rows)]]]
      /\ UNCHANGED <<left, now, bg, visits, pv>>

\* s.urlRepo.Create(ctx, url)
CreateShortURL_Create(p, dbOk) ==
  LET q == req[p]
      c == Create(rows, seq.urls, NewURL(q), now, Ctx(q, dbOk))
      w == [q EXCEPT !.calls = Called(q, "create"),
                     !.faults = Faults(q, Ctx(q, dbOk))]
  IN  /\ q.pc = "create"
      /\ seq.urls < MaxRows
      /\ rows' = c.rows
      /\ seq' = [seq EXCEPT !.urls = c.seq]
      /\ req' = [req EXCEPT ![p] =
           IF c.err # ErrNone
           THEN Returned(w, Failure(ErrCreate, c.err))
           ELSE [w EXCEPT !.pc = "cache", !.url = c.rows[Len(c.rows)]]]
      /\ UNCHANGED <<left, now, cache, bg, visits, pv>>

\* s.cache.SetWithTTL(ctx, cacheKey, url.OriginalURL, cacheTTL), its error
\* only printed, and the response
CreateShortURL_Cache(p, cacheOk) ==
  LET q == req[p]
  IN  /\ q.pc = "cache"
      /\ cache' = SetWithTTL(cache, CacheKey(q.shortCode), q.url.originalURL,
                             CreateCacheTTL(q.url.expiresAt, now), now,
                             Ctx(q, cacheOk))
      /\ req' = [req EXCEPT ![p] =
           Returned([q EXCEPT !.calls = Called(q, "set"),
                              !.faults = Faults(q, Ctx(q, cacheOk))],
                    [NoRes EXCEPT !.shortURL = ShortURL(q.shortCode),
                                  !.originalURL = q.url.originalURL,
                                  !.shortCode = q.shortCode,
                                  !.expiresAt = q.url.expiresAt,
                                  !.createdAt = q.url.createdAt])]
      /\ UNCHANGED <<left, now, rows, bg, visits, pv, seq>>

(***************************************************************************)
(* GetOriginalURL                                                          *)
(***************************************************************************)
\* CacheStep going on to the store on a hit too
CacheStep_IgnoresHit(q, c, t, cacheOk) ==
  [q EXCEPT !.pc = "find", !.calls = Called(q, "get"), !.faults = Faults(q, cacheOk)]

\* CacheStep returning the error of redis to the caller
CacheStep_FailsOnError(q, c, t, cacheOk) ==
  LET g == [q EXCEPT !.calls = Called(q, "get"), !.faults = Faults(q, cacheOk)]
  IN  IF Get(c, CacheKey(q.shortCode), t, cacheOk).err = ErrNone
      THEN Returned(g, [NoRes EXCEPT !.originalURL =
                          Get(c, CacheKey(q.shortCode), t, cacheOk).val])
      ELSE IF Get(c, CacheKey(q.shortCode), t, cacheOk).err = ErrCacheGet
      THEN Returned(g, Failure(ErrCacheGet, ErrNone))
      ELSE [g EXCEPT !.pc = "find"]

\* the first step, s.cache.Get(ctx, cacheKey): a hit returns the cached
\* value; any error (a miss or a failure of redis) goes on to the store
CacheStep(q, c, t, cacheOk) ==
  LET g == [q EXCEPT !.calls = Called(q, "get"), !.faults = Faults(q, cacheOk)]
  IN  IF Get(c, CacheKey(q.shortCode), t, cacheOk).err = ErrNone
      THEN Returned(g, [NoRes EXCEPT !.originalURL =
                          Get(c, CacheKey(q.shortCode), t, cacheOk).val])
      ELSE [g EXCEPT !.pc = "find"]

GetOriginalURL_Cache(p, shortCode, cacheOk) ==
  /\ Arrive(p)
  /\ req' = [req EXCEPT ![p] =
       CacheStep([Idle EXCEPT !.op = "GetOriginalURL", !.shortCode = shortCode],
                 cache, now, cacheOk)]
  /\ UNCHANGED <<now, rows, cache, bg, visits, pv, seq>>

\* GetOriginalURL_Find without the goroutine: no increment is started
GetOriginalURL_Find_NoIncrement(p, dbOk) ==
  LET q == req[p]
      f == FindByShortCode(rows, q.shortCode, now, Ctx(q, dbOk))
      g == [q EXCEPT !.calls = Called(q, "find"),
                     !.faults = Faults(q, Ctx(q, dbOk))]
  IN  /\ q.pc = "find"
      /\ req' = [req EXCEPT ![p] =
           IF f.err # ErrNone
           THEN Returned(g, Failure(f.err, ErrNone))
           ELSE [g EXCEPT !.pc = "recache", !.url = f.url]]
      /\ UNCHANGED <<left, now, rows, cache, bg, visits, pv, seq>>

\* s.urlRepo.FindByShortCode(ctx, shortCode), and on success the goroutine
\* that will increment the visit count of url.ID
GetOriginalURL_Find(p, dbOk) ==
  LET q == req[p]
      f == FindByShortCode(rows, q.shortCode, now, Ctx(q, dbOk))
      g == [q EXCEPT !.calls = Called(q, "find"),
                     !.faults = Faults(q, Ctx(q, dbOk))]
  IN  /\ q.pc = "find"
      /\ IF f.err # ErrNone
         THEN /\ req' = [req EXCEPT ![p] = Returned(g, Failure(f.err, ErrNone))]
              /\ bg' = bg
         ELSE /\ req' = [req EXCEPT ![p] =
                   [g EXCEPT !.pc = "recache", !.url = f.url,
                             !.calls = Called(g, "incr")]]
              /\ bg' = [bg EXCEPT ![f.url.id] = @ + 1]
      /\ UNCHANGED <<left, now, rows, cache, visits, pv, seq>>

\* s.cache.SetWithTTL(ctx, cacheKey, url.OriginalURL, cacheTTL), its error
\* only printed, and the return of url.OriginalURL
GetOriginalURL_Recache(p, cacheOk) ==
  LET q == req[p]
  IN  /\ q.pc = "recache"
      /\ cache' = SetWithTTL(cache, CacheKey(q.shortCode), q.url.originalURL,
                             ResolveCacheTTL(q.url.expiresAt, now), now,
                             Ctx(q, cacheOk))
      /\ req' = [req EXCEPT ![p] =
           Returned([q EXCEPT !.calls = Called(q, "set"),
                              !.faults = Faults(q, Ctx(q, cacheOk))],
                    [NoRes EXCEPT !.originalURL = q.url.originalURL])]
      /\ UNCHANGED <<left, now, rows, bg, visits, pv, seq>>

\* BackgroundIncrement handing its error to the resolve that started it
BackgroundIncrement_Propagates(id, dbOk) ==
  /\ bg[id] > 0
  /\ bg' = [bg EXCEPT ![id] = @ - 1]
  /\ rows' = IncrementVisitCount(rows, id, dbOk)
  /\ req' = [p \in Procs |->
              IF ~dbOk /\ req[p].op = "GetOriginalURL" /\ req[p].url.id = id
              THEN [req[p] EXCEPT !.pc = "done", !.res = Failure(ErrStore, ErrNone)]
              ELSE req[p]]
  /\ UNCHANGED <<left, now, cache, visits, pv, seq>>

\* the goroutine runs: s.urlRepo.IncrementVisitCount(bgCtx, url.ID), its error
\* only printed
BackgroundIncrement(id, dbOk) ==
  /\ bg[id] > 0
  /\ bg' = [bg EXCEPT ![id] = @ - 1]
  /\ rows' = IncrementVisitCount(rows, id, dbOk)
  /\ UNCHANGED <<left, now, cache, req, visits, pv, seq>>

(***************************************************************************)
(* GetURLStats and CleanupExpiredURLs: one store call each                 *)
(***************************************************************************)
\* StatsOf answering for an expired record too
StatsOf_IgnoresExpiry(rs, shortCode, t, dbOk) ==
  LET f == FindByShortCode_NoExpiry(rs, shortCode, t, dbOk)
  IN  IF f.err # ErrNone
      THEN Failure(f.err, ErrNone)
      ELSE [NoRes EXCEPT !.shortURL = ShortURL(shortCode),
                         !.originalURL = f.url.originalURL,
                         !.visitCount = f.url.visitCount,
                         !.createdAt = f.url.createdAt,
                         !.expiresAt = f.url.expiresAt]

\* the response of GetURLStats: the fields of the record FindByShortCode
\* returns, or its error
StatsOf(rs, shortCode, t, dbOk) ==
  LET f == FindByShortCode(rs, shortCode, t, dbOk)
  IN  IF f.err # ErrNone
      THEN Failure(f.err, ErrNone)
      ELSE [NoRes EXCEPT !.shortURL = ShortURL(shortCode),
                         !.originalURL = f.url.originalURL,
                         !.visitCount = f.url.visitCount,
                         !.createdAt = f.url.createdAt,
                         !.expiresAt = f.url.expiresAt]

GetURLStats(p, shortCode, dbOk) ==
  /\ Arrive(p)
  /\ req' = [req EXCEPT ![p] =
       Returned([Idle EXCEPT !.op = "GetURLStats", !.shortCode = shortCode,
                             !.calls = [NoCalls EXCEPT !.find = 1],
                             !.faults = Faults(Idle, dbOk)],
                StatsOf(rows, shortCode, now, dbOk))]
  /\ UNCHANGED <<now, rows, cache, bg, visits, pv, seq>>

CleanupExpiredURLs(p, dbOk) ==
  LET d == DeleteExpired(rows, now, dbOk)
  IN  /\ Arrive(p)
      /\ rows' = d.rows
      /\ req' = [req EXCEPT ![p] =
           Returned([Idle EXCEPT !.op = "CleanupExpiredURLs",
                                 !.faults = Faults(Idle, dbOk)],
                    [NoRes EXCEPT !.err = d.err, !.count = d.count])]
      /\ UNCHANGED <<now, cache, bg, visits, pv, seq>>

(***************************************************************************)
(* RecordVisit, and the redirect handler that starts it                    *)
(***************************************************************************)
\* RecordVisit appending a second copy of the visit
RecordVisit_Twice(vs, sq, rs, urlID, ip, t, dbOk) ==
  LET c == CreateVisit(vs, sq, rs, [NoVisit EXCEPT !.urlID = urlID, !.ip = ip], t, dbOk)
  IN  CreateVisit(c.visits, c.seq, rs, [NoVisit EXCEPT !.urlID = urlID, !.ip = ip], t, dbOk)

\* URLServiceImpl.RecordVisit: the visit with the given urlID, handed to
\* CreateVisit, whose error is returned
RecordVisit(vs, sq, rs, urlID, ip, t, dbOk) ==
  CreateVisit(vs, sq, rs, [NoVisit EXCEPT !.urlID = urlID, !.ip = ip], t, dbOk)

\* a caller of the service records a visit
RecordVisit_Call(p, urlID, ip, dbOk) ==
  LET r == RecordVisit(visits, seq.visits, rows, urlID, ip, now, dbOk)
  IN  /\ Arrive(p)
      /\ visits' = r.visits
      /\ seq' = [seq EXCEPT !.visits = r.seq]
      /\ req' = [req EXCEPT ![p] =
           Returned([Idle EXCEPT !.op = "RecordVisit",
                                 !.url = [NoRow EXCEPT !.id = urlID],
                                 !.ip = ip,
                                 !.calls = [NoCalls EXCEPT !.visit = 1],
                                 !.faults = Faults(Idle, dbOk)],
                    Failure(r.err, ErrNone))]
      /\ UNCHANGED <<now, rows, cache, bg, pv>>

\* the urlID RedirectToOriginalURL hands to RecordVisit:
\* uint(url.VisitCount), url being the stats response
RedirectURLID(stats) == stats.visitCount

\* URLHandler.RedirectToOriginalURL after GetOriginalURL has returned
\* without error: GetURLStats and, when that succeeds, the goroutine that
\* will call RecordVisit
RedirectToOriginalURL_Stats(p, dbOk) ==
  LET q == req[p]
      st == StatsOf(rows, q.shortCode, now, Ctx(q, dbOk))
      g == [q EXCEPT !.calls = [Called(q, "find") EXCEPT !.stats = 1],
                     !.faults = Faults(q, Ctx(q, dbOk))]
  IN  /\ q.op = "GetOriginalURL" /\ q.pc = "done" /\ q.res.err = ErrNone
      /\ q.calls.stats = 0
      /\ IF st.err # ErrNone
         THEN /\ req' = [req EXCEPT ![p] = g]
              /\ pv' = pv
         ELSE /\ req' = [req EXCEPT ![p] = [g EXCEPT !.calls.visit = 1]]
              /\ pv' = [pv EXCEPT ![RedirectURLID(st)] = @ + 1]
      /\ UNCHANGED <<left, now, rows, cache, bg, visits, seq>>

\* the goroutine runs: RecordVisit(c.Request.Context(), urlID, ...), its
\* result dropped; ok = FALSE when the store fails or the request's context
\* was cancelled by then (the handler has returned)
RecordVisit_Goroutine(urlID, ok) ==
  /\ pv[urlID] > 0
  /\ pv' = [pv EXCEPT ![urlID] = @ - 1]
  /\ visits' = RecordVisit(visits, seq.visits, rows, urlID, "10.0.0.1", now, ok).visits
  /\ seq' = [seq EXCEPT !.visits =
               RecordVisit(visits, seq.visits, rows, urlID, "10.0.0.1", now, ok).seq]
  /\ UNCHANGED <<left, now, rows, cache, bg, req>>

(***************************************************************************)
(* The system.                                                             *)
(***************************************************************************)
\* the requests and steps the system can take, with the collaborators'
\* calls succeeding or not as Oks allows (TRUE: the call succeeds)
System(Oks) ==
  \/ Tick
  \/ \E p \in Procs, e \in Expiries, c \in CustomCodes, ip \in IPs, dbOk \in Oks :
       CreateShortURL_Custom(p, URLOf(left), e, c, ip, dbOk)
  \/ \E p \in Procs, e \in Expiries, ip \in IPs, cand \in GenPool,
        genOk \in Oks, dbOk \in Oks :
       CreateShortURL_Generate(p, URLOf(left), e, ip, cand, genOk, dbOk)
  \/ \E p \in Procs, cand \in GenPool, genOk \in Oks, dbOk \in Oks :
       CreateShortURL_Retry(p, cand, genOk, dbOk)
  \/ \E p \in Procs, dbOk \in Oks : CreateShortURL_Create(p, dbOk)
  \/ \E p \in Procs, cacheOk \in Oks : CreateShortURL_Cache(p, cacheOk)
  \/ \E p \in Procs, c \in LookupCodes, cacheOk \in Oks :
       GetOriginalURL_Cache(p, c, cacheOk)
  \/ \E p \in Procs, dbOk \in Oks : GetOriginalURL_Find(p, dbOk)
  \/ \E p \in Procs, cacheOk \in Oks : GetOriginalURL_Recache(p, cacheOk)
  \/ \E id \in 1..MaxRows, dbOk \in Oks : BackgroundIncrement(id, dbOk)
  \/ \E p \in Procs, c \in LookupCodes, dbOk \in Oks : GetURLStats(p, c, dbOk)
  \/ \E p \in Procs, dbOk \in Oks : CleanupExpiredURLs(p, dbOk)

\* every collaborator call may fail
Next == System(BOOLEAN)

Spec == Init /\ [][Next]_vars

\* the store, redis and the random source never fail
NextReliable == System({TRUE})

SpecReliable == Init /\ [][NextReliable]_vars

(***************************************************************************)
(* Cancellation: the caller of a request in flight goes away (the client   *)
(* closes the connection) and the request's context is cancelled.          *)
(***************************************************************************)
Cancel(p) ==
  /\ req[p].pc \notin {"idle", "done"}
  /\ ~req[p].cancelled
  /\ req' = [req EXCEPT ![p].cancelled = TRUE]
  /\ UNCHANGED <<left, now, rows, cache, bg, visits, pv, seq>>

\* the store, redis and the random source answer: a call fails only when
\* its context is cancelled
NextCancel ==
  \/ NextReliable
  \/ \E p \in Procs : Cancel(p)

SpecCancel == Init /\ [][NextCancel]_vars

(***************************************************************************)
(* The cache-TTL runs: one request stands right before its cache write, a  *)
(* create that has persisted its record or a resolve that has found it,    *)
(* for every clock value and every expiration of the record.               *)
(***************************************************************************)
TTLExpiries == {NoExpiry} \cup (0..MaxTTLExpiry)

\* the record of the request, written at time 0
TTLRow(e) ==
  [NoRow EXCEPT !.id = 1, !.originalURL = URLOf(MaxRequests), !.shortCode = G1,
                !.expiresAt = e, !.createdByIP = "10.0.0.1", !.createdAt = 0]

\* CreateShortURL after s.urlRepo.Create
TTLCreate(e) ==
  [CreateCall(URLOf(MaxRequests), e, NoCustom, "10.0.0.1") EXCEPT
     !.pc = "cache", !.shortCode = G1, !.url = TTLRow(e),
     !.calls = [NoCalls EXCEPT !.generate = 1, !.find = 1, !.create = 1]]

\* GetOriginalURL after s.urlRepo.FindByShortCode and the go statement
TTLResolve(e) ==
  [Idle EXCEPT !.op = "GetOriginalURL", !.pc = "recache", !.shortCode = G1,
               !.url = TTLRow(e),
               !.calls = [NoCalls EXCEPT !.get = 1, !.find = 1, !.incr = 1]]

InitTTL ==
  /\ now \in 0..MaxTime
  /\ visits = << >>
  /\ pv = NoPending
  /\ seq = SeqAfter(1)
  /\ cache = [k \in Keys |-> NoEntry]
  /\ left = MaxRequests - 1
  /\ \E e \in TTLExpiries :
       /\ rows = <<TTLRow(e)>>
       /\ \/ /\ req = [p \in Procs |-> IF p = 1 THEN TTLCreate(e) ELSE Idle]
             /\ bg = [id \in 1..MaxRows |-> 0]
          \/ /\ req = [p \in Procs |-> IF p = 1 THEN TTLResolve(e) ELSE Idle]
             /\ bg = [id \in 1..MaxRows |-> IF id = 1 THEN 1 ELSE 0]

NextTTL ==
  \/ \E p \in Procs, cacheOk \in BOOLEAN : CreateShortURL_Cache(p, cacheOk)
  \/ \E p \in Procs, cacheOk \in BOOLEAN : GetOriginalURL_Recache(p, cacheOk)

SpecTTL == InitTTL /\ [][NextTTL]_vars

(***************************************************************************)
(* The stocked runs: the service starts over a table that an earlier       *)
(* create, served at time 0, has written one record to, with the cache     *)
(* entry that create wrote.                                                *)
(***************************************************************************)
\* the record with id k and expiration e, written at time 0
StockedRow(k, code, e) ==
  [NoRow EXCEPT !.id = k, !.originalURL = URLOf(MaxRequests + k), !.shortCode = code,
                !.expiresAt = e, !.createdByIP = "10.0.0.1", !.createdAt = 0]

\* the cache after the create of record r, at time 0
StockedCache(c, r) ==
  SetWithTTL(c, CacheKey(r.shortCode), r.originalURL,
             CreateCacheTTL(r.expiresAt, 0), 0, TRUE)

InitStocked ==
  /\ now = 0
  /\ visits = << >>
  /\ pv = NoPending
  /\ seq = SeqAfter(1)
  /\ bg = [id \in 1..MaxRows |-> 0]
  /\ left = MaxRequests
  /\ req = [p \in Procs |-> Idle]
  /\ \E e \in Expiries :
       /\ rows = <<StockedRow(1, G1, e)>>
       /\ cache = StockedCache([k \in Keys |-> NoEntry], StockedRow(1, G1, e))

SpecStocked == InitStocked /\ [][NextReliable]_vars

(***************************************************************************)
(* The runs with visits: over the stocked table, the service with the      *)
(* store and redis answering, the redirect handler's visit recording and   *)
(* direct calls of RecordVisit.                                            *)
(***************************************************************************)
\* the urlIDs a direct caller of RecordVisit may give
URLIDs == 0..MaxRows

NextVisits ==
  \/ NextReliable
  \/ \E p \in Procs, u \in URLIDs, ip \in IPs, dbOk \in BOOLEAN :
       RecordVisit_Call(p, u, ip, dbOk)
  \/ \E p \in Procs, dbOk \in BOOLEAN : RedirectToOriginalURL_Stats(p, dbOk)
  \/ \E u \in 0..MaxRequests, ok \in BOOLEAN : RecordVisit_Goroutine(u, ok)

SpecVisits == InitStocked /\ [][NextVisits]_vars

(***************************************************************************)
(* The validation runs: one CreateShortURL request with a custom code of   *)
(* every length up to MaxCodeLen, made of the character "a" and at most    *)
(* one other character, at every position.                                 *)
(***************************************************************************)
\* letters, digits, and characters outside CharSet (one of them not ASCII)
ProbeChars == {"a", "Z", "0", "9", "-", "_", " ", "é"}

CodeOf(n, k, ch) == [i \in 1..n |-> IF i = k THEN ch ELSE "a"]

ValidationCodes ==
  { CodeOf(n, k, ch) : n \in 1..MaxCodeLen, k \in 0..MaxCodeLen, ch \in ProbeChars }

InitValid ==
  /\ now = 0
  /\ rows = << >>
  /\ cache = [k \in Keys |-> NoEntry]
  /\ bg = [id \in 1..MaxRows |-> 0]
  /\ left = 1
  /\ req = [p \in Procs |-> Idle]
  /\ visits = << >>
  /\ pv = NoPending
  /\ seq = SeqAfter(0)

NextValid ==
  \E p \in Procs, c \in ValidationCodes, dbOk \in BOOLEAN :
    CreateShortURL_Custom(p, URLOf(left), NoExpiry, c, "10.0.0.1", dbOk)

SpecValid == InitValid /\ [][NextValid]_vars

(***************************************************************************)
(* The cache client on its own: the methods of RedisClient called          *)
(* directly, with any expiration.  Delete and Increment have no caller in  *)
(* the repository, and the service calls Set with a TTL in (0, 24 h] only, *)
(* so these steps are part of no run of the service.                       *)
(***************************************************************************)
RedisClient_Set(key, value, expiration, cacheOk) ==
  /\ left > 0
  /\ left' = left - 1
  /\ cache' = Set(cache, key, value, expiration, now, cacheOk)
  /\ UNCHANGED <<now, rows, bg, req, visits, pv, seq>>

RedisClient_Delete(key, cacheOk) ==
  /\ left > 0
  /\ left' = left - 1
  /\ cache' = Delete(cache, key, cacheOk)
  /\ UNCHANGED <<now, rows, bg, req, visits, pv, seq>>

RedisClient_Increment(key, cacheOk) ==
  /\ left > 0
  /\ left' = left - 1
  /\ cache' = Increment(cache, key, now, cacheOk).cache
  /\ UNCHANGED <<now, rows, bg, req, visits, pv, seq>>

NextClient ==
  \/ Tick
  \/ \E key \in Keys, cacheOk \in BOOLEAN :
       \/ \E value \in URLs, expiration \in 0..DefaultCacheTTL :
            RedisClient_Set(key, value, expiration, cacheOk)
       \/ RedisClient_Delete(key, cacheOk)
       \/ RedisClient_Increment(key, cacheOk)

SpecClient == Init /\ [][NextClient]_vars

\* the Go scheduler runs every goroutine that was started: a visit-count
\* increment that is pending is eventually executed
Fairness ==
  \A id \in 1..MaxRows : WF_vars(\E dbOk \in BOOLEAN : BackgroundIncrement(id, dbOk))

FairSpec == Spec /\ Fairness

(***************************************************************************)
(* Vocabulary of the properties.                                           *)
(***************************************************************************)
\* the slot an arriving request is served in
Arriving == IF Free(1) THEN 1 ELSE 2
\* this step is the arrival of a request in slot p
Arrives(p) == left' = left - 1 /\ p = Arriving
\* the failed collaborator calls of p's request before this step
FaultsBefore(p) == IF Arrives(p) THEN 0 ELSE req[p].faults
\* no collaborator call of p's request fails in this step
NoFaultNow(p) == req'[p].faults = FaultsBefore(p)
\* the record's expiration is in the past at time t
Expired(r, t) == r.expiresAt # NoExpiry /\ r.expiresAt < t
\* the store's lookup finds a record with the code that is not expired
LiveRecord(rs, code, t) == FindByShortCode(rs, code, t, TRUE).err = ErrNone
IsCreate(q) == q.op = "CreateShortURL"
IsResolve(q) == q.op = "GetOriginalURL"
Custom(q) == IsCreate(q) /\ q.customCode # NoCustom
Generated(q) == IsCreate(q) /\ q.customCode = NoCustom
Done(q) == q.pc = "done"
Succeeded(q) == q.pc = "done" /\ q.res.err = ErrNone

\* this step is GetOriginalURL returning a URL to the caller of slot p
Resolves(p) ==
  /\ IsResolve(req'[p]) /\ Succeeded(req'[p])
  /\ Arrives(p) \/ req[p].pc = "recache"
\* this step is an iteration of the generation loop of p's request
GenStep(p) ==
  /\ Generated(req'[p])
  /\ Arrives(p) \/ (req[p].pc = "generate" /\ req'[p] # req[p])
\* this step is the store write of p's request
WriteStep(p) == req[p].pc = "create" /\ req'[p].pc # "create"

(***************************************************************************)
(* C1.  Round trip: whenever GetOriginalURL(c) returns a URL without       *)
(* error, that URL is the originalURL of the record created with short     *)
(* code c, and that record is not expired at the time of the call.         *)
(* Stated of the step in which the URL is returned.                        *)
(***************************************************************************)
C1_RoundTrip ==
  [][\A p \in Procs :
       Resolves(p) =>
         \E k \in 1..Len(rows) :
           /\ rows[k].shortCode = req'[p].shortCode
           /\ rows[k].originalURL = req'[p].res.originalURL
           /\ ~Expired(rows[k], now)]_vars

(***************************************************************************)
(* C2.  In every reachable state, under any interleaving of concurrent     *)
(* CreateShortURL calls, no two non-deleted rows of the store have the     *)
(* same shortCode.                                                         *)
(***************************************************************************)
C2_UniqueShortCode ==
  \A j, k \in 1..Len(rows) :
    (j # k /\ rows[j].deletedAt = NoTime /\ rows[k].deletedAt = NoTime)
      => rows[j].shortCode # rows[k].shortCode

\* two creates raced for one code: both passed the lookup, one has written
\* its row and the other is about to write
C2_Witness ==
  \E p, q \in Procs :
    /\ p # q
    /\ IsCreate(req[p]) /\ req[p].pc = "cache"
    /\ IsCreate(req[q]) /\ req[q].pc = "create"
    /\ req[p].shortCode = req[q].shortCode
    /\ req[p].url.expiresAt = NoExpiry
    /\ req[q].faults = 0

(***************************************************************************)
(* C3.  CreateShortURL with a custom code that passes IsValidCustomCode    *)
(* and for which the store holds no record succeeds: the lookup lets it    *)
(* through, the write persists exactly one row with that shortCode, the    *)
(* requested originalURL and expiresAt, and the response carries the code. *)
(***************************************************************************)
C3_FreeCustomCodeCreated ==
  [][\A p \in Procs :
       /\ ( /\ Arrives(p) /\ Custom(req'[p]) /\ NoFaultNow(p)
            /\ IsValidCustomCode(req'[p].customCode)
            /\ ~UniqueViolation(rows, req'[p].customCode) )
          => /\ req'[p].pc = "create"
             /\ req'[p].shortCode = req'[p].customCode
       /\ ( /\ WriteStep(p) /\ Custom(req[p]) /\ NoFaultNow(p)
            /\ ~UniqueViolation(rows, req[p].shortCode) )
          => /\ Len(rows') = Len(rows) + 1
             /\ rows'[Len(rows')].shortCode = req[p].customCode
             /\ rows'[Len(rows')].originalURL = req[p].originalURL
             /\ rows'[Len(rows')].expiresAt = req[p].expiresAt
       /\ ( req[p].pc = "cache" /\ Custom(req[p]) /\ Done(req'[p]) )
          => /\ req'[p].res.err = ErrNone
             /\ req'[p].res.shortCode = req[p].customCode]_vars

(***************************************************************************)
(* C4.  CreateShortURL with a valid custom code for which the store        *)
(* lookup finds an existing, non-expired record is rejected with           *)
(* "custom code already in use", and leaves store and cache unchanged.     *)
(***************************************************************************)
C4_TakenCustomCodeRejected ==
  [][\A p \in Procs :
       ( /\ Arrives(p) /\ Custom(req'[p]) /\ NoFaultNow(p)
         /\ IsValidCustomCode(req'[p].customCode)
         /\ LiveRecord(rows, req'[p].customCode, now) )
       => /\ Done(req'[p])
          /\ req'[p].res.err = ErrCodeInUse
          /\ rows' = rows /\ cache' = cache]_vars

(***************************************************************************)
(* C5.  When the store's unique constraint rejects the write of            *)
(* CreateShortURL the caller receives CodeInUse, not a generic write       *)
(* failure; and of two concurrent creates for one code at most one         *)
(* succeeds.                                                               *)
(***************************************************************************)
C5_ConstraintViolationIsCodeInUse ==
  /\ \A p \in Procs :
       (IsCreate(req[p]) /\ Done(req[p]) /\ req[p].res.cause = ErrDuplicate)
         => req[p].res.err = ErrCodeInUse
  /\ \A p, q \in Procs :
       ( /\ p # q /\ IsCreate(req[p]) /\ IsCreate(req[q])
         /\ req[p].shortCode = req[q].shortCode
         /\ req[p].calls.create = 1 /\ req[q].calls.create = 1 )
       => ~(req[p].res.cause = ErrNone /\ req[q].res.cause = ErrNone
            /\ req[p].url.id # 0 /\ req[q].url.id # 0)

(***************************************************************************)
(* C6.  CreateShortURL with a non-empty custom code that fails             *)
(* IsValidCustomCode is rejected with "invalid custom code" before any     *)
(* store lookup, store write or cache write; store and cache are           *)
(* unchanged.                                                              *)
(***************************************************************************)
C6_InvalidCodeRejected ==
  [][\A p \in Procs :
       ( /\ Arrives(p) /\ Custom(req'[p])
         /\ ~IsValidCustomCode(req'[p].customCode) )
       => /\ Done(req'[p])
          /\ req'[p].res.err = ErrInvalidCode
          /\ req'[p].calls = NoCalls
          /\ rows' = rows /\ cache' = cache /\ bg' = bg]_vars

\* a request with a code that is too short, or has a character outside
\* CharSet, was rejected
C6_Witness ==
  \E p \in Procs :
    /\ Custom(req[p]) /\ Done(req[p])
    /\ ~IsValidCustomCode(req[p].customCode)
    /\ req[p].res.err = ErrInvalidCode

(***************************************************************************)
(* C7.  CreateShortURL without a custom code makes at most 5 generation    *)
(* attempts; when the 5th candidate too collides with an existing          *)
(* non-expired record (the loop got there only over four collisions) it    *)
(* fails with "failed to generate unique short code", persists no record   *)
(* and writes no cache entry.                                              *)
(***************************************************************************)
C7_AllocationExhausted ==
  [][\A p \in Procs :
       GenStep(p) =>
         /\ req'[p].calls.generate <= MaxAttempts
         /\ req'[p].calls.find <= MaxAttempts
         /\ ( /\ req'[p].calls.find = MaxAttempts /\ NoFaultNow(p)
              /\ LiveRecord(rows, req'[p].shortCode, now) )
            => /\ Done(req'[p])
               /\ req'[p].res.err = ErrExhausted
               /\ req'[p].calls.create = 0 /\ req'[p].calls.set = 0
               /\ rows' = rows /\ cache' = cache]_vars

\* a request gave up after five colliding candidates
C7_Witness ==
  \E p \in Procs :
    /\ Generated(req[p]) /\ Done(req[p])
    /\ req[p].res.err = ErrExhausted
    /\ req[p].calls.generate = MaxAttempts
    /\ req[p].faults = 0

(***************************************************************************)
(* C8, as claimed.  The first generated candidate for which the store has  *)
(* no existing non-expired record is accepted and the record is persisted  *)
(* under exactly that candidate.  Stated of the store write: when it runs  *)
(* and the store holds no non-expired record with the candidate, the row   *)
(* is written.                                                             *)
(***************************************************************************)
C8_AcceptedCandidatePersisted ==
  [][\A p \in Procs :
       ( /\ WriteStep(p) /\ Generated(req[p]) /\ NoFaultNow(p)
         /\ ~LiveRecord(rows, req[p].shortCode, now) )
       => /\ Len(rows') = Len(rows) + 1
          /\ rows'[Len(rows')].shortCode = req[p].shortCode]_vars

(***************************************************************************)
(* C8, amended.  A generated candidate whose lookup finds no non-expired   *)
(* record is accepted at once, on any of the attempts 1..5, and no further *)
(* candidate is generated; the one store write is for exactly that         *)
(* candidate, and it persists the record unless a row (expired,            *)
(* soft-deleted or written meanwhile by a concurrent create) already       *)
(* holds the code: then the unique index rejects the write, the create     *)
(* returns an error and nothing is persisted.  A first candidate without   *)
(* collision is accepted on the first attempt.                             *)
(***************************************************************************)
C8_FirstFreeCandidateAccepted ==
  [][\A p \in Procs :
       /\ ( /\ GenStep(p) /\ NoFaultNow(p)
            /\ ~LiveRecord(rows, req'[p].shortCode, now) )
          => /\ req'[p].pc = "create"
             /\ req'[p].calls.generate = req'[p].i + 1
             /\ Arrives(p) => req'[p].calls.generate = 1
       /\ ( WriteStep(p) /\ Generated(req[p]) /\ NoFaultNow(p) )
          => /\ req'[p].calls.generate = req[p].calls.generate
             /\ req'[p].shortCode = req[p].shortCode
             /\ IF UniqueViolation(rows, req[p].shortCode)
                THEN /\ rows' = rows
                     /\ Done(req'[p])
                     /\ req'[p].res.err # ErrNone
                     /\ req'[p].res.cause = ErrDuplicate
                ELSE /\ Len(rows') = Len(rows) + 1
                     /\ rows'[Len(rows')].shortCode = req[p].shortCode
                     /\ rows'[Len(rows')].originalURL = req[p].originalURL
                     /\ rows'[Len(rows')].expiresAt = req[p].expiresAt
                     /\ req'[p].pc = "cache"
       /\ ( req[p].pc = "cache" /\ Generated(req[p]) /\ Done(req'[p]) )
          => /\ req'[p].calls.generate = req[p].calls.generate
             /\ req'[p].res.shortCode = req[p].shortCode]_vars

\* the fifth candidate was the first without collision, and the record was
\* persisted under it
C8_Witness ==
  \E p \in Procs :
    /\ Generated(req[p]) /\ Succeeded(req[p])
    /\ req[p].calls.generate = MaxAttempts
    /\ req[p].faults = 0
    /\ \E k \in 1..Len(rows) :
         /\ rows[k].shortCode = req[p].res.shortCode
         /\ rows[k].originalURL = req[p].originalURL

(***************************************************************************)
(* C9.  For a record whose expiresAt is in the past, GetOriginalURL        *)
(* returns NotFound even when the cache still holds a live entry for the   *)
(* code: it does not return a cached value for an expired record.          *)
(***************************************************************************)
C9_ExpiredNotServedFromCache ==
  [][\A p \in Procs :
       ( /\ Arrives(p) /\ IsResolve(req'[p])
         /\ Live(cache, CacheKey(req'[p].shortCode), now)
         /\ \E k \in 1..Len(rows) :
              rows[k].shortCode = req'[p].shortCode /\ Expired(rows[k], now) )
       => ~Succeeded(req'[p])]_vars

(***************************************************************************)
(* C10.  When the cache holds an entry for the code (and redis answers),   *)
(* GetOriginalURL returns the cached value and performs no store           *)
(* operation: no FindByShortCode, no visit-count increment and no cache    *)
(* write.                                                                  *)
(***************************************************************************)
C10_CacheHitTouchesNothing ==
  [][\A p \in Procs :
       ( /\ Arrives(p) /\ IsResolve(req'[p]) /\ NoFaultNow(p)
         /\ Live(cache, CacheKey(req'[p].shortCode), now) )
       => /\ Succeeded(req'[p])
          /\ req'[p].res.originalURL = cache[CacheKey(req'[p].shortCode)].val
          /\ req'[p].calls = [NoCalls EXCEPT !.get = 1]
          /\ rows' = rows /\ bg' = bg /\ cache' = cache]_vars

\* a resolve was answered from the cache
C10_Witness ==
  \E p \in Procs :
    /\ IsResolve(req[p]) /\ Succeeded(req[p])
    /\ req[p].calls = [NoCalls EXCEPT !.get = 1]
    /\ req[p].res.originalURL = cache[CacheKey(req[p].shortCode)].val

(***************************************************************************)
(* C11.  GetOriginalURL for a code absent from the cache but present and   *)
(* unexpired in the store returns the record's originalURL, starts exactly *)
(* one visit-count increment, for that record's id, which eventually runs, *)
(* and, when the cache write succeeds, leaves the cache holding            *)
(* code -> originalURL.                                                    *)
(***************************************************************************)
C11_MissResolvesFromStore ==
  /\ [][\A p \in Procs :
          /\ ( /\ req[p].pc = "find" /\ req'[p] # req[p] /\ NoFaultNow(p)
               /\ LiveRecord(rows, req[p].shortCode, now) )
             => /\ req'[p].pc = "recache"
                /\ req'[p].url = FindByShortCode(rows, req[p].shortCode, now, TRUE).url
                /\ req'[p].calls.incr = 1
                /\ bg' = [bg EXCEPT ![req'[p].url.id] = @ + 1]
          /\ ( req[p].pc = "recache" /\ req'[p] # req[p] )
             => /\ Succeeded(req'[p])
                /\ req'[p].res.originalURL = req[p].url.originalURL
                /\ req'[p].calls.incr = 1
                /\ bg' = bg
                /\ NoFaultNow(p) =>
                     /\ Live(cache', CacheKey(req[p].shortCode), now)
                     /\ cache'[CacheKey(req[p].shortCode)].val = req[p].url.originalURL]_vars
  /\ \A id \in 1..MaxRows : (bg[id] > 0) ~> (bg[id] = 0)

\* a resolve missed the cache, was answered from the store and filled the
\* cache, and its increment has run
C11_Witness ==
  \E p \in Procs :
    /\ IsResolve(req[p]) /\ Succeeded(req[p]) /\ req[p].faults = 0
    /\ req[p].calls = [NoCalls EXCEPT !.get = 1, !.find = 1, !.incr = 1, !.set = 1]
    /\ cache[CacheKey(req[p].shortCode)].val = req[p].res.originalURL
    /\ bg[req[p].url.id] = 0
    /\ rows[ByID(rows, req[p].url.id)].visitCount = 1

(***************************************************************************)
(* C12.  On a cache miss, GetOriginalURL for a code that is absent from    *)
(* the store, or whose record is expired, fails with a not-found error     *)
(* ("... not found" or "URL has expired"), starts no visit-count increment *)
(* and writes nothing to the cache.                                        *)
(***************************************************************************)
\* the table has no visible (not soft-deleted) row with the code
Absent(rs, code) ==
  \A k \in 1..Len(rs) : rs[k].shortCode = code => rs[k].deletedAt # NoTime
\* the visible row with the code is expired at time t
ExpiredRecord(rs, code, t) ==
  \E k \in 1..Len(rs) :
    rs[k].shortCode = code /\ rs[k].deletedAt = NoTime /\ Expired(rs[k], t)

C12_MissNotFound ==
  [][\A p \in Procs :
       ( /\ req[p].pc = "find" /\ req'[p] # req[p] /\ NoFaultNow(p)
         /\ \/ Absent(rows, req[p].shortCode)
            \/ ExpiredRecord(rows, req[p].shortCode, now) )
       => /\ Done(req'[p])
          /\ req'[p].res.err \in {ErrNotFound, ErrExpired}
          /\ req'[p].res.originalURL = NoURL
          /\ req'[p].calls.incr = 0 /\ req'[p].calls.set = 0
          /\ bg' = bg /\ cache' = cache /\ rows' = rows]_vars

\* a resolve missed the cache and found the record expired
C12_Witness ==
  \E p \in Procs :
    /\ IsResolve(req[p]) /\ Done(req[p]) /\ req[p].faults = 0
    /\ req[p].res.err = ErrExpired
    /\ req[p].calls = [NoCalls EXCEPT !.get = 1, !.find = 1]
    /\ ExpiredRecord(rows, req[p].shortCode, now)
    /\ ~Live(cache, CacheKey(req[p].shortCode), now)

(***************************************************************************)
(* C13.  The cache TTL used by CreateShortURL and by GetOriginalURL is the *)
(* same function of (expiresAt, now): the default 24 hours when expiresAt  *)
(* is absent, and min(24 hours, expiresAt - now) when expiresAt is in the  *)
(* future.  Stated of the entry the cache write leaves.                    *)
(***************************************************************************)
MinOf(a, b) == IF a < b THEN a ELSE b

C13_SameCacheTTL ==
  [][\A p \in Procs :
       ( /\ req[p].pc \in {"cache", "recache"} /\ req'[p] # req[p]
         /\ NoFaultNow(p) )
       => LET e == req[p].url.expiresAt
              ttl == cache'[CacheKey(req[p].shortCode)].exp - now
          IN  /\ CreateCacheTTL(e, now) = ResolveCacheTTL(e, now)
              /\ e = NoExpiry => ttl = DefaultCacheTTL
              /\ (e # NoExpiry /\ e > now) =>
                   ttl = MinOf(DefaultCacheTTL, e - now)]_vars

\* a resolve cached a record with more than 24 hours to live for 24 hours
C13_Witness ==
  \E p \in Procs :
    /\ IsResolve(req[p]) /\ Succeeded(req[p]) /\ req[p].faults = 0
    /\ req[p].calls.set = 1
    /\ req[p].url.expiresAt - now > DefaultCacheTTL
    /\ cache[CacheKey(req[p].shortCode)].exp = now + DefaultCacheTTL

(***************************************************************************)
(* C14.  Neither CreateShortURL nor GetOriginalURL writes a cache entry    *)
(* for a record whose time until expiration is non-positive when the TTL   *)
(* is computed; CreateShortURL with an expiresAt already in the past       *)
(* persists the record but writes no cache entry.                          *)
(***************************************************************************)
C14_NoCacheEntryForExpired ==
  [][\A p \in Procs :
       ( /\ req[p].pc \in {"cache", "recache"} /\ req'[p] # req[p]
         /\ req[p].url.expiresAt # NoExpiry
         /\ req[p].url.expiresAt - now <= 0 )
       => /\ cache' = cache
          /\ IsCreate(req[p]) =>
               /\ Succeeded(req'[p])
               /\ rows[ByID(rows, req[p].url.id)].shortCode = req[p].shortCode]_vars

(***************************************************************************)
(* C15.  Cache failures never surface to the caller.  CreateShortURL       *)
(* returns success, with the record persisted, when its cache write fails; *)
(* GetOriginalURL goes on to the store when the cache read returns an      *)
(* error that is not a miss, and still returns the originalURL when its    *)
(* cache write fails.                                                      *)
(***************************************************************************)
\* a collaborator call of p's request fails in this step
FaultNow(p) == req'[p].faults = FaultsBefore(p) + 1

C15_CacheFailuresSwallowed ==
  [][\A p \in Procs :
       /\ ( req[p].pc = "cache" /\ FaultNow(p) )
          => /\ Succeeded(req'[p])
             /\ req'[p].res.shortCode = req[p].shortCode
             /\ rows' = rows /\ cache' = cache
             /\ rows[ByID(rows, req[p].url.id)].shortCode = req[p].shortCode
             /\ rows[ByID(rows, req[p].url.id)].originalURL = req'[p].res.originalURL
       /\ ( Arrives(p) /\ IsResolve(req'[p]) /\ FaultNow(p) )
          => /\ req'[p].pc = "find"
             /\ req'[p].res = NoRes
       /\ ( req[p].pc = "recache" /\ FaultNow(p) )
          => /\ Succeeded(req'[p])
             /\ req'[p].res.originalURL = req[p].url.originalURL
             /\ cache' = cache]_vars

\* a resolve whose cache read and cache write both failed returned the
\* record's originalURL
C15_Witness ==
  \E p \in Procs :
    /\ IsResolve(req[p]) /\ Succeeded(req[p])
    /\ req[p].faults = 2
    /\ req[p].calls = [NoCalls EXCEPT !.get = 1, !.find = 1, !.incr = 1, !.set = 1]
    /\ req[p].res.originalURL = rows[ByID(rows, req[p].url.id)].originalURL
    /\ Live(cache, CacheKey(req[p].shortCode), now)

(***************************************************************************)
(* C16.  CleanupExpiredURLs, invoked at time t, deletes exactly the        *)
(* records whose expiresAt is set and strictly before t, and returns the   *)
(* number deleted; a record with no expiresAt, or with expiresAt at or     *)
(* after t, is never deleted, by no step of any interleaving of the sweep  *)
(* with creates and resolves.  (The store answers; a sweep the store       *)
(* fails is C20's case.)                                                   *)
(***************************************************************************)
\* this step is CleanupExpiredURLs, called in slot p
Sweeps(p) == Arrives(p) /\ req'[p].op = "CleanupExpiredURLs"
\* the rows this step deletes
Swept == { k \in 1..Len(rows) : rows[k].deletedAt = NoTime /\ rows'[k].deletedAt # NoTime }

C16_CleanupDeletesExactlyExpired ==
  [][/\ Len(rows') >= Len(rows)
     /\ \A k \in 1..Len(rows) :
          /\ rows[k].deletedAt # NoTime => rows'[k] = rows[k]
          /\ k \in Swept =>
               /\ \E p \in Procs : Sweeps(p)
               /\ rows[k].expiresAt # NoExpiry /\ rows[k].expiresAt < now
               /\ rows'[k] = [rows[k] EXCEPT !.deletedAt = rows'[k].deletedAt]
     /\ \A p \in Procs :
          Sweeps(p) =>
            /\ Done(req'[p])
            /\ Len(rows') = Len(rows)
            /\ req'[p].res.count = Cardinality(Swept)
            /\ req'[p].res.err = ErrNone
            /\ \A k \in 1..Len(rows) :
                 ( /\ rows[k].deletedAt = NoTime
                   /\ rows[k].expiresAt # NoExpiry
                   /\ rows[k].expiresAt < now ) => k \in Swept]_vars

\* a sweep at time 1 deleted the one record that expired at 0 and kept the
\* record expiring at 1, which a create still in flight had just written
C16_Witness ==
  \E p, q \in Procs :
    /\ req[p].op = "CleanupExpiredURLs" /\ Succeeded(req[p])
    /\ req[p].res.count = 1
    /\ now = 1
    /\ \E j, k \in 1..Len(rows) :
         /\ rows[j].expiresAt = 0 /\ rows[j].deletedAt = 1
         /\ rows[k].expiresAt = 1 /\ rows[k].deletedAt = NoTime
         /\ IsCreate(req[q]) /\ req[q].pc = "cache" /\ req[q].url.id = rows[k].id

(***************************************************************************)
(* C17.  GetURLStats never reads or writes the cache: it returns the       *)
(* visitCount, originalURL, createdAt and expiresAt the store holds for    *)
(* the code at that moment, and fails with a not-found error when the code *)
(* is absent, deleted or expired in the store, even if the cache still     *)
(* holds an entry for it.                                                  *)
(***************************************************************************)
C17_StatsFromStoreOnly ==
  [][\A p \in Procs :
       ( Arrives(p) /\ req'[p].op = "GetURLStats" )
       => /\ Done(req'[p])
          /\ req'[p].calls = [NoCalls EXCEPT !.find = 1]
          /\ cache' = cache /\ rows' = rows /\ bg' = bg
          /\ IF \/ Absent(rows, req'[p].shortCode)
                \/ ExpiredRecord(rows, req'[p].shortCode, now)
             THEN req'[p].res.err \in {ErrNotFound, ErrExpired}
             ELSE \E k \in 1..Len(rows) :
                    /\ rows[k].shortCode = req'[p].shortCode
                    /\ rows[k].deletedAt = NoTime
                    /\ req'[p].res.err = ErrNone
                    /\ req'[p].res.visitCount = rows[k].visitCount
                    /\ req'[p].res.originalURL = rows[k].originalURL
                    /\ req'[p].res.createdAt = rows[k].createdAt
                    /\ req'[p].res.expiresAt = rows[k].expiresAt]_vars

\* stats were refused for an expired record whose cache entry is live
C17_Witness ==
  \E p \in Procs :
    /\ req[p].op = "GetURLStats" /\ Done(req[p])
    /\ req[p].res.err = ErrExpired
    /\ ExpiredRecord(rows, req[p].shortCode, now)
    /\ Live(cache, CacheKey(req[p].shortCode), now)

(***************************************************************************)
(* C18.  A record's visitCount never decreases, and concurrent increments  *)
(* are not lost: every increment of a live record that completes adds      *)
(* exactly one and no other step changes the count, so that after k        *)
(* completed increments, under any interleaving, visitCount is exactly k   *)
(* higher than before.                                                     *)
(***************************************************************************)
\* the increments started for record id by the requests in the slots
Dispatched(id) ==
  Cardinality({ p \in Procs : IsResolve(req[p]) /\ req[p].calls.incr = 1
                               /\ req[p].url.id = id })
\* this step is the goroutine incrementing record id
Increments(id) == bg'[id] = bg[id] - 1

C18_VisitCountExact ==
  /\ [][\A k \in 1..Len(rows) :
          /\ rows'[k].visitCount >= rows[k].visitCount
          /\ rows'[k].visitCount =
               IF Increments(rows[k].id) /\ rows[k].deletedAt = NoTime
               THEN rows[k].visitCount + 1
               ELSE rows[k].visitCount]_vars
  \* while every request that has arrived is still in its slot, the count is
  \* the number of increments started less those still pending
  /\ [](MaxRequests - left = Cardinality({ p \in Procs : req[p].pc # "idle" }) =>
          \A k \in 1..Len(rows) :
            rows[k].deletedAt = NoTime =>
              rows[k].visitCount = Dispatched(rows[k].id) - bg[rows[k].id])

\* two concurrent resolves of one record both went to the store, and both
\* increments have run
C18_Witness ==
  \E k \in 1..Len(rows) :
    /\ \A p \in Procs :
         /\ IsResolve(req[p]) /\ Succeeded(req[p])
         /\ req[p].calls.incr = 1 /\ req[p].url.id = rows[k].id
    /\ bg[rows[k].id] = 0
    /\ rows[k].visitCount = 2

(***************************************************************************)
(* C19.  A failure of the background visit-count increment never changes   *)
(* the outcome of GetOriginalURL: the goroutine, whether its increment     *)
(* succeeds or fails, touches no request, and a resolve that started one   *)
(* returns the record's originalURL with a nil error.                      *)
(***************************************************************************)
C19_IncrementFailureIgnored ==
  /\ [][(\E id \in 1..MaxRows : Increments(id)) => req' = req]_vars
  /\ [](\A p \in Procs :
          (IsResolve(req[p]) /\ Done(req[p]) /\ req[p].calls.incr = 1)
            => /\ req[p].res.err = ErrNone
               /\ req[p].res.originalURL = req[p].url.originalURL)

\* a resolve returned the URL, and its increment ran and failed: the count
\* of the record is still 0
C19_Witness ==
  \E p \in Procs :
    /\ IsResolve(req[p]) /\ Succeeded(req[p]) /\ req[p].calls.incr = 1
    /\ req[p].res.originalURL = rows[ByID(rows, req[p].url.id)].originalURL
    /\ bg[req[p].url.id] = 0
    /\ rows[ByID(rows, req[p].url.id)].deletedAt = NoTime
    /\ rows[ByID(rows, req[p].url.id)].visitCount = 0

(***************************************************************************)
(* C20.  A store failure (as opposed to a not-found or expired answer)     *)
(* during CreateShortURL, the uniqueness lookup included, during           *)
(* GetURLStats or during CleanupExpiredURLs is returned to the caller as a *)
(* store error: it is not taken for "the code is free", it is not reported *)
(* as "custom code already in use", and no record is persisted on the      *)
(* strength of a failed lookup.                                            *)
(***************************************************************************)
\* the lookup that p's create makes in this step fails in the store
LookupFails(p) ==
  /\ IsCreate(req'[p]) /\ FaultNow(p)
  /\ req'[p].calls.find = (IF Arrives(p) THEN 0 ELSE req[p].calls.find) + 1

C20_StoreFailuresPropagate ==
  [][\A p \in Procs :
       /\ LookupFails(p)
          => /\ Done(req'[p])
             /\ req'[p].res.err \in {ErrFinding, ErrStore}
             /\ rows' = rows
       /\ ( WriteStep(p) /\ FaultNow(p) )
          => /\ Done(req'[p])
             /\ req'[p].res.err = ErrCreate /\ req'[p].res.cause = ErrStore
             /\ rows' = rows
       /\ ( Arrives(p) /\ req'[p].op = "GetURLStats" /\ FaultNow(p) )
          => /\ Done(req'[p])
             /\ req'[p].res.err \in {ErrFinding, ErrStore}
       /\ ( Sweeps(p) /\ FaultNow(p) )
          => /\ Done(req'[p])
             /\ req'[p].res.err \in {ErrFinding, ErrStore}
             /\ rows' = rows]_vars

(***************************************************************************)
(* C21.  If the caller's request is cancelled after GetOriginalURL's store *)
(* lookup has succeeded, both the visit-count increment and the cache      *)
(* repopulation of that resolve still run to completion: neither is        *)
(* performed under the request's cancellable context.  Stated of the       *)
(* steps: the increment started for the record counts when it is executed, *)
(* and the cache write of the cancelled resolve leaves the entry.          *)
(***************************************************************************)
C21_BackgroundWorkSurvivesCancel ==
  [][/\ \A k \in 1..Len(rows) :
          ( Increments(rows[k].id) /\ rows[k].deletedAt = NoTime )
            => rows'[k].visitCount = rows[k].visitCount + 1
     /\ \A p \in Procs :
          ( req[p].pc = "recache" /\ req[p].cancelled /\ Done(req'[p]) )
          => /\ Live(cache', CacheKey(req[p].shortCode), now)
             /\ cache'[CacheKey(req[p].shortCode)].val = req[p].url.originalURL]_vars

(***************************************************************************)
(* C22.  Every Visit record appended as a result of a redirect for short   *)
(* code c has URLID equal to the durable id of the record with code c; the *)
(* visit count is never used as the identifier.  Stated of the step in     *)
(* which a goroutine of the handler appends its visit, while every request *)
(* that has arrived is still in its slot: the visit references the record  *)
(* of a code for which a redirect has started a visit recording.           *)
(***************************************************************************)
\* every request that has arrived so far is still in its slot
AllInView == MaxRequests - left = Cardinality({ p \in Procs : req[p].pc # "idle" })
\* this step is a goroutine of the handler appending a visit
AppendsVisit ==
  /\ Len(visits') = Len(visits) + 1
  /\ \E u \in 0..MaxRequests : pv'[u] = pv[u] - 1

C22_VisitReferencesDurableID ==
  [][(AppendsVisit /\ AllInView) =>
       \E p \in Procs :
         /\ IsResolve(req[p]) /\ req[p].calls.visit = 1
         /\ \E k \in 1..Len(rows) :
              /\ rows[k].shortCode = req[p].shortCode
              /\ rows[k].id = visits'[Len(visits')].urlID]_vars

(***************************************************************************)
(* C23.  RecordVisit appends exactly one Visit record with the given urlID *)
(* and returns the store's error when the append fails; it changes no      *)
(* field of a ShortLink (visitCount included), and no operation of the     *)
(* service (cleanup included) mutates or deletes an existing Visit record. *)
(***************************************************************************)
\* this step is RecordVisit, called in slot p
RecordsVisit(p) == Arrives(p) /\ req'[p].op = "RecordVisit"
\* this step appends exactly one visit, with urlID u, and keeps the others
AppendsOne(u) ==
  /\ Len(visits') = Len(visits) + 1
  /\ visits'[Len(visits')].urlID = u
  /\ \A k \in 1..Len(visits) : visits[k].id < visits'[Len(visits')].id
  /\ \A k \in 1..Len(visits) : visits'[k] = visits[k]

C23_RecordVisitAppendsOne ==
  [][/\ Len(visits') >= Len(visits)
     /\ \A k \in 1..Len(visits) : visits'[k] = visits[k]
     /\ \A p \in Procs :
          RecordsVisit(p) =>
            /\ Done(req'[p])
            /\ rows' = rows /\ cache' = cache /\ bg' = bg
            /\ IF req'[p].res.err = ErrNone
               THEN AppendsOne(req'[p].url.id)
               ELSE visits' = visits
            /\ FaultNow(p) => req'[p].res.err = ErrStore
            /\ NoFaultNow(p) =>
                 req'[p].res.err =
                   IF \E k \in 1..Len(rows) : rows[k].id = req'[p].url.id
                   THEN ErrNone ELSE ErrForeignKey
     /\ \A u \in 0..MaxRequests :
          pv'[u] = pv[u] - 1 =>
            /\ rows' = rows
            /\ visits' = visits \/ AppendsOne(u)]_vars

\* a visit recorded at time 0 is still there after the sweep has deleted
\* the record it references
C23_Witness ==
  /\ \E v \in 1..Len(visits) :
       /\ visits[v].createdAt = 0
       /\ HasID(rows, visits[v].urlID)
       /\ rows[ByID(rows, visits[v].urlID)].deletedAt # NoTime
  /\ \E p \in Procs :
       /\ req[p].op = "CleanupExpiredURLs" /\ Succeeded(req[p])
       /\ req[p].res.count = 1

(***************************************************************************)
(* C24.  IsValidCustomCode(code) is true if and only if                    *)
(* 3 <= len(code) <= 20 and every character of code is one of the 62       *)
(* alphanumeric characters of CharSet; it consults no store or cache       *)
(* state.  Stated of the function and of the request that applies it: the  *)
(* request is rejected as invalid, without any call, exactly when the code *)
(* is not of that form.                                                    *)
(***************************************************************************)
WellFormed(code) ==
  /\ 3 <= Len(code) /\ Len(code) <= 20
  /\ \A k \in 1..Len(code) : code[k] \in CharSet

C24_ValidIffWellFormed ==
  [][\A p \in Procs :
       ( Arrives(p) /\ Custom(req'[p]) )
       => /\ Cardinality(CharSet) = 62
          /\ IsValidCustomCode(req'[p].customCode) <=> WellFormed(req'[p].customCode)
          /\ req'[p].res.err = ErrInvalidCode <=> ~WellFormed(req'[p].customCode)
          /\ ~WellFormed(req'[p].customCode) =>
               /\ req'[p].calls = NoCalls
               /\ rows' = rows /\ cache' = cache]_vars

\* a code of 20 alphanumeric characters got past the validation, to the
\* lookup
C24_Witness ==
  \E p \in Procs :
    /\ Custom(req[p]) /\ Len(req[p].customCode) = MaxCustomLen
    /\ req[p].calls.find = 1
    /\ req[p].res.err # ErrInvalidCode

(***************************************************************************)
(* C25.  Whenever the cache holds a live entry for a code, the record with *)
(* that code is not expired; the entry of a record with an expiration      *)
(* lapses no later than the record's expiresAt, and the entry of a record  *)
(* without expiration lapses at most 24 hours after it was written (so at  *)
(* most 24 hours from now while it is live).                               *)
(***************************************************************************)
C25_LiveEntryRecordNotExpired ==
  \A k \in 1..Len(rows) :
    Live(cache, CacheKey(rows[k].shortCode), now)
    => /\ ~Expired(rows[k], now)
       /\ rows[k].expiresAt # NoExpiry =>
            cache[CacheKey(rows[k].shortCode)].exp <= rows[k].expiresAt
       /\ rows[k].expiresAt = NoExpiry =>
            cache[CacheKey(rows[k].shortCode)].exp <= now + DefaultCacheTTL

(***************************************************************************)
(* C26.  A record's lifecycle moves forward only: Active, then Expired     *)
(* (the clock passes expiresAt), then Deleted (the cleanup).  No operation *)
(* changes a record's expiresAt, originalURL or shortCode; a record that   *)
(* is Expired or Deleted is never Active again; a record without           *)
(* expiration never leaves Active; the cleanup is the only transition into *)
(* Deleted, and it takes Expired records only.                             *)
(***************************************************************************)
Lifecycle(r, t) ==
  IF r.deletedAt # NoTime THEN "Deleted"
  ELSE IF Expired(r, t) THEN "Expired"
  ELSE "Active"

Stage(state) == CASE state = "Active" -> 0 [] state = "Expired" -> 1 [] state = "Deleted" -> 2

C26_LifecycleForwardOnly ==
  [][/\ Len(rows') >= Len(rows)
     /\ \A k \in 1..Len(rows) :
          /\ rows'[k].expiresAt = rows[k].expiresAt
          /\ rows'[k].originalURL = rows[k].originalURL
          /\ rows'[k].shortCode = rows[k].shortCode
          /\ Stage(Lifecycle(rows'[k], now')) >= Stage(Lifecycle(rows[k], now))
          /\ rows[k].expiresAt = NoExpiry =>
               /\ Lifecycle(rows[k], now) = "Active"
               /\ Lifecycle(rows'[k], now') = "Active"
          /\ ( Lifecycle(rows'[k], now') = "Deleted"
               /\ Lifecycle(rows[k], now) # "Deleted" ) =>
               /\ Lifecycle(rows[k], now) = "Expired"
               /\ \E p \in Procs : Sweeps(p)
          /\ ( Lifecycle(rows'[k], now') = "Expired"
               /\ Lifecycle(rows[k], now) = "Active" ) => now' = now + 1]_vars

\* a record that was Active when it was created is Deleted: the clock passed
\* its expiresAt and a sweep took it
C26_Witness ==
  \E k \in 1..Len(rows) :
    /\ rows[k].expiresAt # NoExpiry /\ rows[k].createdAt <= rows[k].expiresAt
    /\ Lifecycle(rows[k], now) = "Deleted"
    /\ rows[k].deletedAt > rows[k].expiresAt

(***************************************************************************)
(* C27.  CreateShortURL writes the cache only after the store write has    *)
(* succeeded; whenever it returns an error, the cache holds exactly the    *)
(* entries it held before the call: no step of a create other than the one *)
(* after the successful store write touches the cache, and a create that   *)
(* returns an error never got to that step.                                *)
(***************************************************************************)
\* p's request is a create, and this step is one of its steps
CreateSteps(p) == IsCreate(req'[p]) /\ req'[p] # req[p]

C27_CacheWrittenAfterStoreWrite ==
  [][\A p \in Procs :
       CreateSteps(p)
       => /\ ( cache' # cache \/ req'[p].calls.set > 0 ) =>
               /\ req[p].pc = "cache" /\ IsCreate(req[p])
               /\ req[p].calls.create = 1
               /\ HasID(rows, req[p].url.id)
               /\ rows[ByID(rows, req[p].url.id)].shortCode = req[p].shortCode
               /\ rows[ByID(rows, req[p].url.id)].originalURL = req[p].originalURL
               /\ Succeeded(req'[p])
          /\ ( Done(req'[p]) /\ req'[p].res.err # ErrNone ) =>
               /\ req'[p].calls.set = 0
               /\ cache' = cache]_vars

\* a create failed at the store write, and the cache has no entry for its
\* code
C27_Witness ==
  \E p \in Procs :
    /\ IsCreate(req[p]) /\ Done(req[p])
    /\ req[p].res.err = ErrCreate
    /\ req[p].calls.create = 1 /\ req[p].calls.set = 0
    /\ cache[CacheKey(req[p].shortCode)] = NoEntry

(***************************************************************************)
(* C28.  A short code is never assigned to a second store row.  The        *)
(* cleanup soft-deletes and the unique index on short_code covers all      *)
(* rows, so a CreateShortURL for a code held by an expired or              *)
(* cleanup-deleted record fails at the store write instead of creating a   *)
(* new record; the set of codes ever persisted only grows, and each code   *)
(* maps to one originalURL forever.                                        *)
(***************************************************************************)
\* the table has a row with the code that is expired at t or soft-deleted
HeldByGone(rs, code, t) ==
  \E k \in 1..Len(rs) :
    rs[k].shortCode = code /\ (Expired(rs[k], t) \/ rs[k].deletedAt # NoTime)

C28_CodeNeverReassigned ==
  [][/\ Len(rows') >= Len(rows)
     /\ \A k \in 1..Len(rows) :
          /\ rows'[k].shortCode = rows[k].shortCode
          /\ rows'[k].originalURL = rows[k].originalURL
     /\ \A j, k \in 1..Len(rows') :
          j # k => rows'[j].shortCode # rows'[k].shortCode
     /\ \A p \in Procs :
          ( /\ req[p].pc = "create" /\ req'[p] # req[p]
            /\ HeldByGone(rows, req[p].shortCode, now) )
          => /\ rows' = rows
             /\ Done(req'[p])
             /\ req'[p].calls.create = 1
             /\ req'[p].res.err # ErrNone
             /\ req'[p].res.cause = ErrDuplicate]_vars

\* the only row of the table is soft-deleted, and a create that the lookup
\* let through with its code failed at the store write
C28_Witness ==
  \E p \in Procs :
    /\ IsCreate(req[p]) /\ Done(req[p])
    /\ req[p].calls.create = 1
    /\ req[p].res.cause = ErrDuplicate
    /\ Len(rows) = 1
    /\ rows[1].shortCode = req[p].shortCode
    /\ rows[1].deletedAt # NoTime

====
